---- MODULE Spec2Model ----
(***************************************************************************)
(* Model of the euterpe MoFA agents.  Each agent is a run-once process: it  *)
(* reads one message from stdin, does its work and writes one message to   *)
(* stdout.  A behaviour of the model is the run of one agent on a message  *)
(* its upstream agent can write: the keyframe parser and the music         *)
(* generator on a message of the start node, the image generator on a      *)
(* message of keyframes, the video generator on a message of frames, and   *)
(* the result logger, which the runner may start again on the same         *)
(* directory, on the messages of the video and the music generator.  The   *)
(* image and the video generator drive every item through submit / poll /  *)
(* download against the remote provider.                                   *)
(*                                                                         *)
(* Python values are encoded so that TLC can compare them:                 *)
(*   None            <<>>                                                  *)
(*   an int n        <<n>>           (an optional number)                  *)
(*   f"{prefix}{n}"  <<prefix, n>>   (injective, like the f-string)        *)
(*   a Path          <<dir, frame_id, extension>>                          *)
(*   {}              <<>>            (a mapping with no key)               *)
(***************************************************************************)
EXTENDS Integers, Sequences, FiniteSets, TLC

(* ------------------------------ bounds -------------------------------- *)

\* Largest number of keyframes in the batch handed to the image agent.
MaxFrames == 3

(* ------------------------- program constants -------------------------- *)

max_wait_time == 300
check_interval == 5

None == <<>>
Some(n) == <<n>>

\* Python truthiness of an optional int: None and 0 are falsy.
TruthyInt(v) == v # None /\ v # Some(0)

\* Python truthiness of an optional path: None is falsy.
TruthyPath(v) == v # None

\* The default of message.get('metadata', {}).get('frame_id_prefix', 'frame_').
frame_id_prefix == "frame_"

\* The frame numbers a keyframe may carry: absent, 0, or an explicit number.
FrameNumbers == {None, Some(0), Some(1)}

\* The prompts of the keyframe file.
Prompts == {"sunrise"}

\* A keyframe as KeyframeData.to_dict() serialises it (the fields the
\* generation agents read).
Keyframes == [prompt : Prompts, frame_number : FrameNumbers]

\* All batches of at most MaxFrames keyframes.
Batches == UNION {[1..n -> Keyframes] : n \in 0..MaxFrames}

VARIABLES
    agent,          \* which agent this process is: "image", "video", "music", ...
    stdin,          \* the message on the agent's stdin
    stdout,         \* the message the agent wrote to stdout (None before)
    use_dify,       \* USE_DIFY environment flag of the video agent
    DIFY_AVAILABLE, \* whether the DifyEnhancer import succeeded
    credentials,    \* whether the provider credentials are set in the environment
    lines,          \* the lines of the keyframe file the parser reads
    pc,             \* position of the running agent in its code
    idx,            \* 1-based position of the for loop over the batch
    results,        \* the results list built by the running agent
    prompt,         \* local: the prompt sent to the provider for this item ("" before)
    elapsed,        \* local: elapsed of the video poll loop
    calls,          \* history: number of outside calls made for the current item
    last_status,    \* history: what the last status query of the current job gave
    cause,          \* history: how the current item ended ("none" while it runs)
    output_file,    \* history: what the download left at the current item's output path
    in_flight,      \* the remote calls running in worker threads of an executor
    now,            \* the clock the result logger reads, in half seconds
    log_dir,        \* the files of the result logger's output directory
    runs            \* the number of result logger invocations so far

vars == <<agent, stdin, stdout, use_dify, DIFY_AVAILABLE, credentials, lines, pc, idx,
          results, prompt, elapsed, calls, last_status, cause, output_file,
          in_flight, now, log_dir, runs>>

locals == <<prompt, elapsed, calls, last_status>>
config == <<agent, stdin, use_dify, DIFY_AVAILABLE, credentials, lines, now, log_dir,
            runs>>

\* No outside call made yet.
NoCalls == [enhance |-> 0, submit |-> 0, poll |-> 0, download |-> 0]

\* One more call of the kind.
Called(made, kind) == [made EXCEPT ![kind] = @ + 1]

ErrorMessage(text) == [status |-> "error", error |-> text]

\* A document json.loads raises on, or that is not a mapping.
Malformed == [malformed |-> TRUE]

\* What can go wrong before the first item: creating the output directory,
\* reading the configuration, constructing the provider client.
SetupOutcomes == {"ok", "mkdir_error", "config_error", "client_error"}

\* What a download can do: requests.get raises, the server answers (with the
\* artifact or with an error body, both written), or writing the file raises.
DownloadOutcomes == {"ok", "http_error_body", "get_raises", "write_raises"}

\* What the download leaves at the output path: requests.get raising leaves
\* nothing; otherwise open(output_path, "wb") creates the file and
\* response.content, the artifact or the server's error body, is written to
\* it, and a write that raises leaves the file as far as it got.
Written(outcome) ==
    CASE outcome = "ok" -> "artifact"
      [] outcome = "http_error_body" -> "error_body"
      [] outcome = "get_raises" -> "absent"
      [] outcome = "write_raises" -> "partial"

\* load_kling_config raising when a required credential is missing.
load_kling_config_Raises(present) ==
    IF present THEN "loaded" ELSE "Missing required KlingDemo API credentials"

\* load_kling_config, the test of the required fields: a missing credential
\* is logged as a warning and the configuration is returned all the same.
load_kling_config(present) == "loaded"

\* Whether the provider can accept a request of the client: never when the
\* client was given no credentials.
ProviderMayAccept(present) == present

(* --------------------------- image agent ------------------------------ *)

\* f"{frame_id_prefix}{frame_number}"
FrameId(prefix, number) == <<prefix, number>>

\* keyframe.get('frame_number') or (idx + 1), idx 0-based; position is 1-based.
FrameNumber(keyframe, position) ==
    IF TruthyInt(keyframe.frame_number) THEN keyframe.frame_number[1] ELSE position

\* self.output_dir / f"{frame_id}.png"
ImagePath(frame_id) == <<"workflow/outputs/images", frame_id, ".png">>

\* The result dictionary of one keyframe.
ImageResult(keyframe, position, p, image_path) ==
    [frame_id |-> FrameId(frame_id_prefix, FrameNumber(keyframe, position)),
     frame_number |-> FrameNumber(keyframe, position),
     prompt |-> p,
     image_path |-> IF TruthyPath(image_path) THEN image_path ELSE None,
     status |-> IF TruthyPath(image_path) THEN "success" ELSE "failed",
     original_keyframe |-> keyframe]

\* ImageSuccessMessage counting the successful frames only.
ImageSuccessMessage_CountsSuccesses(rs) ==
    [status |-> "success", frames |-> rs,
     count |-> Cardinality({i \in 1..Len(rs) : rs[i].status = "success"}),
     metadata |-> [model_name |-> "kling-v1-5", output_dir |-> "workflow/outputs/images"]]

\* The output message process_input_message builds from the results.
ImageSuccessMessage(rs) ==
    [status |-> "success", frames |-> rs, count |-> Len(rs),
     metadata |-> [model_name |-> "kling-v1-5", output_dir |-> "workflow/outputs/images"]]

\* message.get('keyframes', [])
ImageKeyframes == IF "keyframes" \in DOMAIN stdin THEN stdin.keyframes ELSE <<>>

\* `with ThreadPoolExecutor() as pool: ... await run_in_executor(pool, call)`:
\* the step that goes on after the await has the call's return behind it, and
\* the pool is shut down with its worker joined.
AwaitedCallReturns == in_flight' = IF pc = "await" THEN in_flight - 1 ELSE in_flight

\* main_async: the agent writes the message to stdout and the process ends.
Emit(message) ==
    /\ stdout' = message
    /\ pc' = "done"
    /\ prompt' = ""
    /\ elapsed' = 0
    /\ calls' = NoCalls
    /\ last_status' = "none"
    /\ cause' = "none"
    /\ output_file' = "absent"
    /\ UNCHANGED <<config, in_flight, idx, results>>

\* generate() returned image_path for the reason why: the rest of the loop
\* iteration builds the result and appends it; made is the calls made.
ImageStoreResult(p, image_path, why, made) ==
    /\ prompt' = p
    /\ results' = Append(results, ImageResult(ImageKeyframes[idx], idx, p, image_path))
    /\ calls' = made
    /\ cause' = why
    /\ idx' = idx + 1
    /\ pc' = "loop"
    /\ AwaitedCallReturns
    /\ UNCHANGED <<stdout, config, elapsed, last_status>>

\* process_input_message up to the first iteration of process_keyframes.
ImageStart ==
    /\ agent = "image" /\ pc = "start"
    /\ \E setup \in SetupOutcomes :
         IF stdin = Malformed THEN Emit(ErrorMessage("json"))
         ELSE IF setup = "mkdir_error" THEN Emit(ErrorMessage("mkdir"))
         ELSE IF ImageKeyframes = <<>>
              THEN Emit(ErrorMessage("No keyframes provided in input message"))
         ELSE IF load_kling_config(credentials) # "loaded"
              THEN Emit(ErrorMessage(load_kling_config(credentials)))
         ELSE IF setup # "ok" THEN Emit(ErrorMessage(setup))
         ELSE /\ pc' = "loop"
              /\ UNCHANGED <<stdout, config, in_flight, idx, results, locals,
                             cause, output_file>>

\* One iteration of the for loop up to the creation of the task in generate():
\* an exception is caught by generate's except clause, which returns None.
ImageSubmit ==
    /\ agent = "image" /\ pc = "loop" /\ idx <= Len(ImageKeyframes)
    /\ \E ok \in {FALSE, ProviderMayAccept(credentials)} :
         IF ok
         THEN /\ prompt' = ImageKeyframes[idx].prompt
              /\ calls' = Called(NoCalls, "submit")
              /\ pc' = "wait"
              /\ cause' = "none"
              /\ output_file' = "absent"
              /\ UNCHANGED <<stdout, config, in_flight, idx, results, elapsed, last_status>>
         ELSE /\ ImageStoreResult(ImageKeyframes[idx].prompt, None, "submit_error",
                                  Called(NoCalls, "submit"))
              /\ output_file' = "absent"

\* generate(): the provider client's blocking wait for completion is handed
\* to a worker thread of a new pool, and the coroutine awaits it.
ImageWaitStart ==
    /\ agent = "image" /\ pc = "wait"
    /\ pc' = "await"
    /\ in_flight' = in_flight + 1
    /\ UNCHANGED <<stdout, config, idx, results, locals, cause, output_file>>

\* ImageWait asking for the image of a task that holds none.
ImageWait_DownloadsAnyway ==
    /\ agent = "image" /\ pc = "await"
    /\ \E outcome \in {"images", "no_images", "raises", "pending"} :
         CASE outcome = "pending" -> UNCHANGED vars
           [] outcome = "images" ->
                /\ pc' = "download"
                /\ calls' = Called(calls, "poll")
                /\ AwaitedCallReturns
                /\ UNCHANGED <<stdout, config, idx, results, prompt, elapsed,
                               last_status, cause, output_file>>
           [] outcome = "no_images" ->
                /\ ImageStoreResult(prompt, None, "no_artifact",
                                    Called(Called(calls, "poll"), "download"))
                /\ UNCHANGED output_file
           [] outcome = "raises" ->
                /\ ImageStoreResult(prompt, None, "poll_failed", Called(calls, "poll"))
                /\ UNCHANGED output_file

\* generate(): the awaited wait for completion returns or raises, then the
\* test for task_result.images.  The call is made with the task id only, no
\* timeout and no interval, and is awaited without a timer of the agent's
\* own: while the provider reports no end of the job the agent stays here.
ImageWait ==
    /\ agent = "image" /\ pc = "await"
    /\ \E outcome \in {"images", "no_images", "raises", "pending"} :
         CASE outcome = "pending" -> UNCHANGED vars
           [] outcome = "images" ->
                /\ pc' = "download"
                /\ calls' = Called(calls, "poll")
                /\ AwaitedCallReturns
                /\ UNCHANGED <<stdout, config, idx, results, prompt, elapsed,
                               last_status, cause, output_file>>
           [] outcome = "no_images" ->
                /\ ImageStoreResult(prompt, None, "no_artifact", Called(calls, "poll"))
                /\ UNCHANGED output_file
           [] outcome = "raises" ->
                /\ ImageStoreResult(prompt, None, "poll_failed", Called(calls, "poll"))
                /\ UNCHANGED output_file

\* generate(): requests.get and the write of response.content.
ImageDownload ==
    /\ agent = "image" /\ pc = "download"
    /\ \E outcome \in DownloadOutcomes :
         /\ output_file' = Written(outcome)
         /\ IF outcome \in {"ok", "http_error_body"}
            THEN ImageStoreResult(prompt,
                                  ImagePath(FrameId(frame_id_prefix,
                                                    FrameNumber(ImageKeyframes[idx], idx))),
                                  "success", Called(calls, "download"))
            ELSE ImageStoreResult(prompt, None, "download_error",
                                  Called(calls, "download"))

\* The loop is over: process_input_message returns the success message.
ImageFinish ==
    /\ agent = "image" /\ pc = "loop" /\ idx > Len(ImageKeyframes)
    /\ Emit(ImageSuccessMessage(results))

NextImage ==
    \/ ImageStart
    \/ ImageSubmit
    \/ ImageWaitStart
    \/ ImageWait
    \/ ImageDownload
    \/ ImageFinish

(* --------------------------- the inputs ------------------------------- *)

\* The messages the keyframe parser writes for the batches, and the one it
\* writes, with no keyframes list, when its own input names no file.
ImageInputs ==
    {[status |-> "success", keyframes |-> b, count |-> Len(b),
      metadata |-> [frame_id_prefix |-> frame_id_prefix]] : b \in Batches}
    \cup {[error |-> "Missing required parameter 'keyframes_file'"]}

\* A keyframe without a frame number: its frame id is its position.
PlainKeyframe == [prompt |-> "sunrise", frame_number |-> None]

\* The messages the image agent writes for batches of plain keyframes, one
\* for every way the images of the batch can succeed and fail; its error
\* message, which has no frames list; and a message with an empty list.
VideoInputs ==
    UNION {{ImageSuccessMessage(
               [i \in 1..n |-> ImageResult(PlainKeyframe, i, PlainKeyframe.prompt,
                    IF ok[i] THEN ImagePath(FrameId(frame_id_prefix, i)) ELSE None)]) :
            ok \in [1..n -> BOOLEAN]} : n \in 1..MaxFrames}
    \cup {ErrorMessage("No keyframes provided in input message"),
          [status |-> "success", frames |-> <<>>, count |-> 0]}

InitLocals ==
    /\ stdout = None
    /\ pc = "start"
    /\ idx = 1
    /\ results = <<>>
    /\ prompt = ""
    /\ elapsed = 0
    /\ calls = NoCalls
    /\ last_status = "none"
    /\ cause = "none"
    /\ output_file = "absent"
    /\ in_flight = 0
    /\ now = 0
    /\ log_dir = <<>>
    /\ runs = 1

\* The image agent starts on a parser message.
InitImage ==
    /\ agent = "image"
    /\ stdin \in ImageInputs \cup {Malformed}
    /\ use_dify = FALSE
    /\ DIFY_AVAILABLE = FALSE
    /\ credentials \in BOOLEAN
    /\ InitLocals
    /\ lines = <<>>

\* The video agent starts on an image agent message.
InitVideo ==
    /\ agent = "video"
    /\ stdin \in VideoInputs \cup {Malformed}
    /\ use_dify \in BOOLEAN
    /\ DIFY_AVAILABLE \in BOOLEAN
    /\ credentials \in BOOLEAN
    /\ InitLocals
    /\ lines = <<>>

(* --------------------------- video agent ------------------------------ *)

\* message.get('frames', [])
VideoFrames == IF "frames" \in DOMAIN stdin THEN stdin.frames ELSE <<>>

\* self.output_dir / f"{frame_id}.mp4"
VideoPath(frame_id) == <<"workflow/outputs/videos", frame_id, ".mp4">>

\* What DifyEnhancer().enhance_prompt returns for a prompt.
EnhancedPrompt(p) == "enhanced: " \o p

\* enhance_prompt_with_dify giving the empty prompt when the enhancer raises.
enhance_prompt_with_dify_EmptyOnError(original_prompt, enhancer_raises) ==
    IF ~DIFY_AVAILABLE THEN original_prompt
    ELSE IF enhancer_raises THEN ""
    ELSE EnhancedPrompt(original_prompt)

\* enhance_prompt_with_dify: the original prompt when the enhancer is not
\* importable or raises, the enhanced prompt otherwise.
enhance_prompt_with_dify(original_prompt, enhancer_raises) ==
    IF ~DIFY_AVAILABLE THEN original_prompt
    ELSE IF enhancer_raises THEN original_prompt
    ELSE EnhancedPrompt(original_prompt)

\* The task_status values a status query can carry.
TaskStatuses == {"processing", "succeed", "failed", "unknown_status"}

\* The responses self.client._request can return for the status query.
\* shape "no_data": no "data" key; "data_not_dict": data is not a mapping;
\* "no_task_status": data has no task_status; "status": data.task_status is
\* set, and has_url tells whether data.task_result.videos[0].url is present.
PollResponses ==
    {[shape |-> "no_data"], [shape |-> "data_not_dict"], [shape |-> "no_task_status"]}
    \cup [shape : {"status"}, task_status : TaskStatuses \ {"succeed"}, has_url : {FALSE}]
    \cup [shape : {"status"}, task_status : {"succeed"}, has_url : BOOLEAN]

\* PollStatus comparing with "success" where the provider says "succeed".
PollStatus_WrongSuccessWord(response) ==
    IF response.shape = "status" /\ response.task_status = "success" THEN "succeed"
    ELSE IF response.shape = "status" /\ response.task_status = "failed" THEN "failed"
    ELSE "pending"

\* PollStatus without the branch for the failed status.
PollStatus_FailedIsPending(response) ==
    IF response.shape = "status" /\ response.task_status = "succeed" THEN "succeed"
    ELSE "pending"

\* PollStatus taking every status other than succeed and processing as failed.
PollStatus_UnknownIsFailed(response) ==
    IF response.shape = "status" /\ response.task_status = "succeed" THEN "succeed"
    ELSE IF response.shape = "status" /\ response.task_status # "processing" THEN "failed"
    ELSE "pending"

\* PollStatus taking a job that is still processing for a finished one.
PollStatus_ProcessingIsSucceed(response) ==
    IF response.shape = "status" /\ response.task_status \in {"succeed", "processing"}
    THEN "succeed"
    ELSE IF response.shape = "status" /\ response.task_status = "failed" THEN "failed"
    ELSE "pending"

\* How the poll loop reads a response: "succeed" breaks the loop, "failed"
\* returns None, anything else falls through to the sleep.
PollStatus(response) ==
    IF response.shape = "status" /\ response.task_status = "succeed" THEN "succeed"
    ELSE IF response.shape = "status" /\ response.task_status = "failed" THEN "failed"
    ELSE "pending"

\* What a response shows of the job: its task_status, or its shape when it
\* carries none.
Observed(response) ==
    IF response.shape = "status" THEN response.task_status ELSE response.shape

\* The while condition with <= for <.
PollLoopContinues_Inclusive(e, max_wait) == e <= max_wait

\* The while condition counting the coming sleep in.
PollLoopContinues_StopsEarly(e, max_wait) == e + check_interval < max_wait

\* The while condition of the poll loop.
PollLoopContinues(e, max_wait) == e < max_wait

\* The number of status queries the loop issues from elapsed e on when no
\* response is terminal: one per iteration, check_interval added per sleep.
RECURSIVE PollsUntilTimeout(_, _, _)
PollsUntilTimeout(e, max_wait, interval) ==
    IF PollLoopContinues(e, max_wait)
    THEN 1 + PollsUntilTimeout(e + interval, max_wait, interval)
    ELSE 0

\* The skip test left out.
VideoHasNoImage_Never(frame) == FALSE

\* if not image_path
VideoHasNoImage(frame) == ~TruthyPath(frame.image_path)

\* SkippedResult without the frame id.
SkippedResult_NoFrameId(frame) ==
    [frame_id |-> None, status |-> "skipped",
     reason |-> "No image available", original_frame |-> frame]

\* The result of a frame that had no image.
SkippedResult(frame) ==
    [frame_id |-> frame.frame_id, status |-> "skipped",
     reason |-> "No image available", original_frame |-> frame]

\* VideoResult with str(video_path) unguarded: str(None) is the text "None".
VideoResult_StrOfNone(frame, p, video_path) ==
    [frame_id |-> frame.frame_id,
     image_path |-> frame.image_path,
     video_path |-> IF TruthyPath(video_path) THEN video_path ELSE <<"None">>,
     prompt |-> p,
     status |-> IF TruthyPath(video_path) THEN "success" ELSE "failed",
     original_frame |-> frame]

\* VideoResult storing the prompt that was sent into the frame itself.
VideoResult_PromptWrittenBack(frame, p, video_path) ==
    [frame_id |-> frame.frame_id,
     image_path |-> frame.image_path,
     video_path |-> IF TruthyPath(video_path) THEN video_path ELSE None,
     prompt |-> p,
     status |-> IF TruthyPath(video_path) THEN "success" ELSE "failed",
     original_frame |-> [frame EXCEPT !.prompt = p]]

\* The result of a frame generate_from_image was called for.
VideoResult(frame, p, video_path) ==
    [frame_id |-> frame.frame_id,
     image_path |-> frame.image_path,
     video_path |-> IF TruthyPath(video_path) THEN video_path ELSE None,
     prompt |-> p,
     status |-> IF TruthyPath(video_path) THEN "success" ELSE "failed",
     original_frame |-> frame]

\* VideoSuccessMessage answering error when no item of the batch succeeded.
VideoSuccessMessage_ErrorWhenNoneSucceeded(rs) ==
    [status |-> IF \E i \in 1..Len(rs) : rs[i].status = "success"
                THEN "success" ELSE "error",
     videos |-> rs, count |-> Len(rs),
     metadata |-> [model_name |-> "kling-v1", output_dir |-> "workflow/outputs/videos",
                   mode |-> "std", duration |-> "5", dify_used |-> use_dify]]

\* The output message process_input_message builds from the results.
VideoSuccessMessage(rs) ==
    [status |-> "success", videos |-> rs, count |-> Len(rs),
     metadata |-> [model_name |-> "kling-v1", output_dir |-> "workflow/outputs/videos",
                   mode |-> "std", duration |-> "5", dify_used |-> use_dify]]

\* VideoStoreResult stepping over the frame that follows a failed one.
VideoStoreResult_SkipsNext(video_path, why, made) ==
    /\ results' = Append(results, VideoResult(VideoFrames[idx], prompt, video_path))
    /\ calls' = made
    /\ cause' = why
    /\ idx' = IF TruthyPath(video_path) THEN idx + 1 ELSE idx + 2
    /\ pc' = "loop"
    /\ AwaitedCallReturns
    /\ UNCHANGED <<stdout, config, prompt>>

\* generate_from_image returned video_path for the reason why: the rest of
\* the loop iteration builds the result and appends it; made is the calls made.
VideoStoreResult(video_path, why, made) ==
    /\ results' = Append(results, VideoResult(VideoFrames[idx], prompt, video_path))
    /\ calls' = made
    /\ cause' = why
    /\ idx' = idx + 1
    /\ pc' = "loop"
    /\ AwaitedCallReturns
    /\ UNCHANGED <<stdout, config, prompt>>

\* VideoStart without the test for an empty frames list.
VideoStart_NoEmptyTest ==
    /\ agent = "video" /\ pc = "start"
    /\ \E setup \in SetupOutcomes :
         IF stdin = Malformed THEN Emit(ErrorMessage("json"))
         ELSE IF setup = "mkdir_error" THEN Emit(ErrorMessage("mkdir"))
         ELSE IF load_kling_config(credentials) # "loaded"
              THEN Emit(ErrorMessage(load_kling_config(credentials)))
         ELSE IF setup # "ok" THEN Emit(ErrorMessage(setup))
         ELSE /\ pc' = "loop"
              /\ UNCHANGED <<stdout, config, in_flight, idx, results, locals,
                             cause, output_file>>

\* process_input_message up to the first iteration of process_frame_images.
VideoStart ==
    /\ agent = "video" /\ pc = "start"
    /\ \E setup \in SetupOutcomes :
         IF stdin = Malformed THEN Emit(ErrorMessage("json"))
         ELSE IF setup = "mkdir_error" THEN Emit(ErrorMessage("mkdir"))
         ELSE IF VideoFrames = <<>>
              THEN Emit(ErrorMessage("No frames provided in input message"))
         ELSE IF load_kling_config(credentials) # "loaded"
              THEN Emit(ErrorMessage(load_kling_config(credentials)))
         ELSE IF setup # "ok" THEN Emit(ErrorMessage(setup))
         ELSE /\ pc' = "loop"
              /\ UNCHANGED <<stdout, config, in_flight, idx, results, locals,
                             cause, output_file>>

\* VideoSkipFrame continuing without recording a result.
VideoSkipFrame_NoResult ==
    /\ agent = "video" /\ pc = "loop" /\ idx <= Len(VideoFrames)
    /\ VideoHasNoImage(VideoFrames[idx])
    /\ calls' = NoCalls
    /\ last_status' = "none"
    /\ cause' = "skipped"
    /\ output_file' = "absent"
    /\ prompt' = VideoFrames[idx].prompt
    /\ elapsed' = 0
    /\ idx' = idx + 1
    /\ UNCHANGED <<stdout, config, in_flight, pc, results>>

\* An iteration for a frame with no image: record it as skipped, continue.
VideoSkipFrame ==
    /\ agent = "video" /\ pc = "loop" /\ idx <= Len(VideoFrames)
    /\ VideoHasNoImage(VideoFrames[idx])
    /\ results' = Append(results, SkippedResult(VideoFrames[idx]))
    /\ calls' = NoCalls
    /\ last_status' = "none"
    /\ cause' = "skipped"
    /\ output_file' = "absent"
    /\ prompt' = VideoFrames[idx].prompt
    /\ elapsed' = 0
    /\ idx' = idx + 1
    /\ UNCHANGED <<stdout, config, in_flight, pc>>

\* An iteration for a frame with an image, up to the call of
\* generate_from_image: the prompt is enhanced when USE_DIFY is set.
VideoEnhancePrompt ==
    /\ agent = "video" /\ pc = "loop" /\ idx <= Len(VideoFrames)
    /\ ~VideoHasNoImage(VideoFrames[idx])
    /\ \E enhancer_raises \in BOOLEAN :
         prompt' = IF use_dify
                   THEN enhance_prompt_with_dify(VideoFrames[idx].prompt, enhancer_raises)
                   ELSE VideoFrames[idx].prompt
    /\ calls' = IF use_dify /\ DIFY_AVAILABLE THEN Called(NoCalls, "enhance") ELSE NoCalls
    /\ last_status' = "none"
    /\ cause' = "none"
    /\ output_file' = "absent"
    /\ pc' = "submit"
    /\ elapsed' = 0
    /\ UNCHANGED <<stdout, config, in_flight, idx, results>>

\* generate_from_image up to the poll loop: read and encode the image file,
\* build the request, create the task.  An exception at any of these is
\* caught by the except clause, which returns None.
VideoSubmit ==
    /\ agent = "video" /\ pc = "submit"
    /\ \E outcome \in {"read_error", "submit_error"}
                       \cup (IF ProviderMayAccept(credentials) THEN {"ok"} ELSE {}) :
         CASE outcome = "ok" ->
                /\ pc' = "poll"
                /\ elapsed' = 0
                /\ calls' = Called(calls, "submit")
                /\ UNCHANGED <<stdout, config, in_flight, idx, results, prompt, last_status,
                               cause, output_file>>
           [] outcome = "read_error" ->
                /\ VideoStoreResult(None, "read_error", calls)
                /\ UNCHANGED <<elapsed, last_status, output_file>>
           [] outcome = "submit_error" ->
                /\ VideoStoreResult(None, "submit_error", Called(calls, "submit"))
                /\ UNCHANGED <<elapsed, last_status, output_file>>

\* VideoPollStart going on without awaiting the call: sleep, query again.
VideoPollStart_NotAwaited ==
    /\ agent = "video" /\ pc = "poll" /\ PollLoopContinues(elapsed, max_wait_time)
    /\ in_flight' = in_flight + 1
    /\ elapsed' = elapsed + check_interval
    /\ UNCHANGED <<stdout, config, idx, results, prompt, calls, last_status,
                   pc, cause, output_file>>

\* The head of one iteration of the while loop: the condition holds, the
\* status query is handed to a worker thread of a new pool, and the
\* coroutine awaits it.
VideoPollStart ==
    /\ agent = "video" /\ pc = "poll" /\ PollLoopContinues(elapsed, max_wait_time)
    /\ pc' = "await"
    /\ in_flight' = in_flight + 1
    /\ UNCHANGED <<stdout, config, idx, results, locals, cause, output_file>>

\* VideoPollRaises with the exception swallowed inside the loop: sleep, go on.
VideoPollRaises_Swallowed ==
    /\ agent = "video" /\ pc = "await"
    /\ last_status' = "raised"
    /\ calls' = Called(calls, "poll")
    /\ elapsed' = elapsed + check_interval
    /\ pc' = "poll"
    /\ AwaitedCallReturns
    /\ UNCHANGED <<stdout, config, idx, results, prompt, cause, output_file>>

\* One iteration of the while loop in which the status query raises: the
\* exception leaves the loop and the except clause returns None.
VideoPollRaises ==
    /\ agent = "video" /\ pc = "await"
    /\ last_status' = "raised"
    /\ VideoStoreResult(None, "poll_error", Called(calls, "poll"))
    /\ UNCHANGED <<elapsed, output_file>>

\* VideoPoll sleeping two intervals on a pending job.
VideoPoll_SleepsTwice ==
    /\ agent = "video" /\ pc = "await"
    /\ \E response \in PollResponses :
         /\ last_status' = Observed(response)
         /\ CASE PollStatus(response) = "succeed" /\ response.has_url ->
                   /\ pc' = "download"
                   /\ calls' = Called(calls, "poll")
                   /\ AwaitedCallReturns
                   /\ UNCHANGED <<stdout, config, idx, results, prompt, elapsed,
                                  cause, output_file>>
              [] PollStatus(response) = "succeed" /\ ~response.has_url ->
                   /\ VideoStoreResult(None, "no_artifact", Called(calls, "poll"))
                   /\ UNCHANGED <<elapsed, output_file>>
              [] PollStatus(response) = "failed" ->
                   /\ VideoStoreResult(None, "poll_failed", Called(calls, "poll"))
                   /\ UNCHANGED <<elapsed, output_file>>
              [] OTHER ->
                   /\ calls' = Called(calls, "poll")
                   /\ elapsed' = elapsed + 2 * check_interval
                   /\ pc' = "poll"
                   /\ AwaitedCallReturns
                   /\ UNCHANGED <<stdout, config, idx, results, prompt, cause, output_file>>

\* The rest of an iteration of the while loop in which the status query
\* answers: the response is read, and a pending job is slept on.
VideoPoll ==
    /\ agent = "video" /\ pc = "await"
    /\ \E response \in PollResponses :
         /\ last_status' = Observed(response)
         /\ CASE PollStatus(response) = "succeed" /\ response.has_url ->
                   /\ pc' = "download"
                   /\ calls' = Called(calls, "poll")
                   /\ AwaitedCallReturns
                   /\ UNCHANGED <<stdout, config, idx, results, prompt, elapsed,
                                  cause, output_file>>
              [] PollStatus(response) = "succeed" /\ ~response.has_url ->
                   /\ VideoStoreResult(None, "no_artifact", Called(calls, "poll"))
                   /\ UNCHANGED <<elapsed, output_file>>
              [] PollStatus(response) = "failed" ->
                   /\ VideoStoreResult(None, "poll_failed", Called(calls, "poll"))
                   /\ UNCHANGED <<elapsed, output_file>>
              [] OTHER ->
                   /\ calls' = Called(calls, "poll")
                   /\ elapsed' = elapsed + check_interval
                   /\ pc' = "poll"
                   /\ AwaitedCallReturns
                   /\ UNCHANGED <<stdout, config, idx, results, prompt, cause, output_file>>

\* VideoTimeout raising out of the batch: the agent answers with an error.
VideoTimeout_Raises ==
    /\ agent = "video" /\ pc = "poll" /\ ~PollLoopContinues(elapsed, max_wait_time)
    /\ Emit(ErrorMessage("Timeout waiting for video generation task"))

\* VideoTimeout creating the task again and waiting anew.
VideoTimeout_Resubmits ==
    /\ agent = "video" /\ pc = "poll" /\ ~PollLoopContinues(elapsed, max_wait_time)
    /\ pc' = "submit"
    /\ elapsed' = 0
    /\ UNCHANGED <<stdout, config, in_flight, idx, results, prompt, calls,
                   last_status, cause, output_file>>

\* The else clause of the while loop: the condition is false, return None.
VideoTimeout ==
    /\ agent = "video" /\ pc = "poll" /\ ~PollLoopContinues(elapsed, max_wait_time)
    /\ VideoStoreResult(None, "timeout", calls)
    /\ UNCHANGED <<elapsed, last_status, output_file>>

\* After the loop: requests.get of the video url and the write of the file.
VideoDownload ==
    /\ agent = "video" /\ pc = "download"
    /\ \E outcome \in DownloadOutcomes :
         /\ output_file' = Written(outcome)
         /\ IF outcome \in {"ok", "http_error_body"}
            THEN VideoStoreResult(VideoPath(VideoFrames[idx].frame_id), "success",
                                  Called(calls, "download"))
            ELSE VideoStoreResult(None, "download_error", Called(calls, "download"))
    /\ UNCHANGED <<elapsed, last_status>>

\* The loop is over: process_input_message returns the success message.
VideoFinish ==
    /\ agent = "video" /\ pc = "loop" /\ idx > Len(VideoFrames)
    /\ Emit(VideoSuccessMessage(results))

NextVideo ==
    \/ VideoStart
    \/ VideoSkipFrame
    \/ VideoEnhancePrompt
    \/ VideoSubmit
    \/ VideoPollStart
    \/ VideoPollRaises
    \/ VideoPoll
    \/ VideoTimeout
    \/ VideoDownload
    \/ VideoFinish

(* ------------------------- messages between agents -------------------- *)

\* dict.get(key) == value, for a value that is a string.
StatusIs(m, value) == "status" \in DOMAIN m /\ m.status = value

\* dict.get(key, default)
Get(m, key, default) == IF key \in DOMAIN m THEN m[key] ELSE default

\* A JSON null in the place of a message.  An empty mapping {} is <<>>.
NullMessage == [null |-> TRUE]

\* The results the video agent writes for a batch of n plain keyframes, given
\* for each item whether its image and its video were made: the image agent's
\* frames go through the skip test and the result constructors of the video agent.
PipelineVideoResults(n, image_ok, video_ok) ==
    [i \in 1..n |->
        LET frame == ImageResult(PlainKeyframe, i, PlainKeyframe.prompt,
                         IF image_ok[i] THEN ImagePath(FrameId(frame_id_prefix, i))
                         ELSE None)
        IN  IF VideoHasNoImage(frame) THEN SkippedResult(frame)
            ELSE VideoResult(frame, frame.prompt,
                             IF video_ok[i] THEN VideoPath(frame.frame_id) ELSE None)]

\* The messages the video agent writes: a success message for every batch of
\* plain keyframes and every outcome of its items, and the error message.
VideoMessages ==
    UNION {{VideoSuccessMessage(PipelineVideoResults(n, image_ok, video_ok)) :
            image_ok \in [1..n -> BOOLEAN], video_ok \in [1..n -> BOOLEAN]} :
           n \in 1..MaxFrames}
    \cup {ErrorMessage("No frames provided in input message")}

(* --------------------------- music agent ------------------------------ *)

\* The prompt process_music_request uses when the message carries none.
default_music_prompt ==
    "Create a calming, atmospheric background music suitable for video content"

\* message.get('music_prompt'), replaced by the default when it is falsy.
MusicPrompt(message) ==
    IF "music_prompt" \in DOMAIN message /\ message.music_prompt # ""
    THEN message.music_prompt ELSE default_music_prompt

MusicSuccessMessage(p) ==
    [status |-> "success",
     music_path |-> <<"workflow/outputs/music", "background_music", ".mp3">>,
     metadata |-> [prompt |-> p, format |-> "mp3", duration |-> 180,
                   filename |-> "background_music"]]

MusicErrorMessage(text, p) ==
    [status |-> "error", error |-> text,
     metadata |-> [prompt |-> p, filename |-> "background_music"]]

\* The messages of the start node to the music agent.
MusicInputs == {[music_prompt |-> "calm piano"], [music_prompt |-> ""], <<>>, Malformed}

\* What generating the music can do: the client returns the path; generate
\* returns None (package or API key missing, or the client raised inside
\* generate); constructing MusicGenerator raises.
MusicOutcomes == {"ok", "returns_none", "constructor_raises"}

\* MusicStart with no except clause in main_async: an exception ends the
\* process with nothing written.
MusicStart_Uncaught ==
    /\ agent = "music" /\ pc = "start"
    /\ \E mkdir_raises \in BOOLEAN :
         IF stdin = Malformed \/ mkdir_raises
         THEN /\ pc' = "done"
              /\ UNCHANGED <<stdout, config, in_flight, idx, results, locals, cause, output_file>>
         ELSE /\ prompt' = MusicPrompt(stdin)
              /\ pc' = "generate"
              /\ UNCHANGED <<stdout, config, in_flight, idx, results, elapsed, calls,
                             last_status, cause, output_file>>

\* main_async and process_music_request up to the try block: read and parse
\* stdin, load the configuration, create the output directory.
MusicStart ==
    /\ agent = "music" /\ pc = "start"
    /\ \E mkdir_raises \in BOOLEAN :
         IF stdin = Malformed THEN Emit(ErrorMessage("json"))
         ELSE IF mkdir_raises THEN Emit(ErrorMessage("mkdir"))
         ELSE /\ prompt' = MusicPrompt(stdin)
              /\ pc' = "generate"
              /\ UNCHANGED <<stdout, config, in_flight, idx, results, elapsed, calls,
                             last_status, cause, output_file>>

\* The try block of process_music_request.
MusicGenerate ==
    /\ agent = "music" /\ pc = "generate"
    /\ \E outcome \in (IF credentials THEN MusicOutcomes ELSE MusicOutcomes \ {"ok"}) :
         CASE outcome = "ok" -> Emit(MusicSuccessMessage(prompt))
           [] outcome = "returns_none" ->
                Emit(MusicErrorMessage("Failed to generate music", prompt))
           [] outcome = "constructor_raises" ->
                Emit(MusicErrorMessage("constructor", prompt))

NextMusic ==
    \/ MusicStart
    \/ MusicGenerate

\* The music agent starts on a message of the start node.
InitMusic ==
    /\ agent = "music"
    /\ stdin \in MusicInputs
    /\ use_dify = FALSE
    /\ DIFY_AVAILABLE = FALSE
    /\ credentials \in BOOLEAN
    /\ InitLocals
    /\ lines = <<>>

\* The messages the music agent writes.
MusicMessages ==
    {MusicSuccessMessage("calm piano"),
     MusicErrorMessage("Failed to generate music", "calm piano"),
     ErrorMessage("mkdir")}

(* -------------------------- keyframe parser --------------------------- *)

\* The messages of the start node to the keyframe parser.
ParserInputs == {[keyframes_file |-> "keyframes.txt"], [keyframes_file |-> ""], <<>>,
                 Malformed}

\* The message returned when keyframes_file is missing or empty.
MissingParameterMessage == [error |-> "Missing required parameter 'keyframes_file'"]

ParserSuccessMessage(keyframes, file) ==
    [status |-> "success", keyframes |-> keyframes, count |-> Len(keyframes),
     metadata |-> [source_file |-> file, default_aspect_ratio |-> "16:9",
                   frame_id_prefix |-> frame_id_prefix]]

ParserErrorMessage(text, file) ==
    [status |-> "error", error |-> text, metadata |-> [source_file |-> file]]

\* Largest number of lines of a keyframe file.
MaxLines == 3

\* A line of the keyframe file after strip(): empty, a comment (starts with
\* '#'), a separator (starts with "---"), "key: value" (holds a ':'; key and
\* value are the two sides of the first ':', stripped), or other text.
Line(kind, key, value) == [kind |-> kind, key |-> key, value |-> value]

FileLines ==
    {Line("blank", "", ""), Line("comment", "", ""), Line("separator", "", ""),
     Line("text", "", ""),
     Line("pair", "prompt", "sunrise"), Line("pair", "Prompt", "dusk"),
     Line("pair", "frame", "1"), Line("pair", "frame", "x"),
     Line("pair", "seed", "7"), Line("pair", "negative_prompt", "blur")}

\* All keyframe files of at most MaxLines lines.
Files == UNION {[1..n -> FileLines] : n \in 0..MaxLines}

\* str.lower() on the keys of the files.
lower(key) == IF key = "Prompt" THEN "prompt" ELSE key

\* int(value) on the values of the files: the number a value denotes; a
\* value outside the domain raises ValueError.
IntLiterals == ("0" :> 0) @@ ("1" :> 1) @@ ("7" :> 7)

\* d[key] = value on a dict.
SetItem(d, key, value) ==
    [k \in DOMAIN d \cup {key} |-> IF k = key THEN value ELSE d[k]]

\* An optional field of a dict: d.get(key), None when the key is not set.
Optional(d, key) == IF key \in DOMAIN d THEN Some(d[key]) ELSE None

\* KeyframeData(...).to_dict() of the current frame.
KeyframeData(current_frame) ==
    [prompt |-> Get(current_frame, "prompt", ""),
     negative_prompt |-> Optional(current_frame, "negative_prompt"),
     frame_number |-> Optional(current_frame, "frame_number"),
     timestamp |-> None,
     aspect_ratio |-> Get(current_frame, "aspect_ratio", "16:9"),
     seed |-> Optional(current_frame, "seed")]

\* `if current_frame and "prompt" in current_frame: keyframes.append(...)`
append_keyframe(keyframes, current_frame) ==
    IF DOMAIN current_frame # {} /\ "prompt" \in DOMAIN current_frame
    THEN Append(keyframes, KeyframeData(current_frame))
    ELSE keyframes

\* The key-value branch of the loop body: the keys the parser knows set a
\* field of the current frame, a value int() rejects is passed over.
parse_pair(current_frame, key, value) ==
    CASE key \in {"frame", "frame_number"} ->
            IF value \in DOMAIN IntLiterals
            THEN SetItem(current_frame, "frame_number", IntLiterals[value])
            ELSE current_frame
      [] key \in {"prompt", "negative_prompt", "aspect_ratio"} ->
            SetItem(current_frame, key, value)
      [] key = "seed" ->
            IF value \in DOMAIN IntLiterals
            THEN SetItem(current_frame, "seed", IntLiterals[value])
            ELSE current_frame
      [] OTHER -> current_frame

\* parse_line carrying the current frame over a separator.
parse_line_KeepsFields(state, line) ==
    CASE line.kind \in {"blank", "comment"} -> state
      [] line.kind = "separator" ->
            [keyframes |-> append_keyframe(state.keyframes, state.current_frame),
             current_frame |-> state.current_frame]
      [] line.kind = "pair" ->
            [state EXCEPT !.current_frame = parse_pair(@, lower(line.key), line.value)]
      [] OTHER -> state

\* One iteration of `for line in lines`: state is the pair of keyframes and
\* current_frame before it, the result the pair after it.
parse_line(state, line) ==
    CASE line.kind \in {"blank", "comment"} -> state
      [] line.kind = "separator" ->
            [keyframes |-> append_keyframe(state.keyframes, state.current_frame),
             current_frame |-> <<>>]
      [] line.kind = "pair" ->
            [state EXCEPT !.current_frame = parse_pair(@, lower(line.key), line.value)]
      [] OTHER -> state

\* The for loop from line i on.
RECURSIVE parse_lines(_, _, _)
parse_lines(state, file, i) ==
    IF i > Len(file) THEN state
    ELSE parse_lines(parse_line(state, file[i]), file, i + 1)

\* parse_keyframe_file once the file is read: the loop, then the last frame.
parse_keyframe_file(file) ==
    LET end == parse_lines([keyframes |-> <<>>, current_frame |-> <<>>], file, 1)
    IN  append_keyframe(end.keyframes, end.current_frame)

\* main and process_input_message of the parser: read and parse stdin, test
\* keyframes_file, read the file and parse its lines, write the message.
ParserRun ==
    /\ agent = "parser" /\ pc = "start"
    /\ IF stdin = Malformed THEN Emit(ErrorMessage("json"))
       ELSE IF Get(stdin, "keyframes_file", "") = "" THEN Emit(MissingParameterMessage)
       ELSE \E open_raises \in BOOLEAN :
              IF open_raises
              THEN Emit(ParserErrorMessage("open", stdin.keyframes_file))
              ELSE Emit(ParserSuccessMessage(parse_keyframe_file(lines),
                                             stdin.keyframes_file))

NextParser == ParserRun

\* The parser starts on a message of the start node, with a keyframe file.
InitParser ==
    /\ agent = "parser"
    /\ stdin \in ParserInputs
    /\ use_dify = FALSE
    /\ DIFY_AVAILABLE = FALSE
    /\ credentials = TRUE
    /\ lines \in Files
    /\ InitLocals

(* --------------------------- result logger ---------------------------- *)

\* Largest number of invocations of the result logger on one directory.
MaxRuns == 2

\* strftime with a format that stops at the minutes.
strftime_NoSeconds(t) == t \div 120

\* datetime.now().strftime("%Y%m%d_%H%M%S"): the clock cut to whole seconds
\* (the clock counts half seconds).
strftime(t) == t \div 2

\* f"run_{timestamp}"
RunId(t) == <<"run_", strftime(t)>>

\* self.output_dir / f"{run_id}.json" and self.output_dir / f"{run_id}_summary.md"
LogFile(run_id) == <<"workflow/logs", run_id, ".json">>
SummaryFile(run_id) == <<"workflow/logs", run_id, "_summary.md">>

\* sum(1 for v in video_results if v.get("status") == value)
\* CountStatus taking a skipped result for one of the status counted.
CountStatus_CountsSkipped(video_results, value) ==
    Cardinality({i \in 1..Len(video_results) :
                    \/ StatusIs(video_results[i], value)
                    \/ StatusIs(video_results[i], "skipped")})

CountStatus(video_results, value) ==
    Cardinality({i \in 1..Len(video_results) : StatusIs(video_results[i], value)})

\* A result the video agent made a request for.
NotSkipped(video) == ~StatusIs(video, "skipped")

\* LogEntry keeping only the results of the frames that were attempted.
LogEntry_DropsSkipped(video_results, music_result, run_id, t) ==
    [run_id |-> run_id,
     timestamp |-> t,
     video_results |-> SelectSeq(video_results, NotSkipped),
     music_result |-> music_result,
     summary |-> [video_frames |-> Len(video_results),
                  successful_videos |-> CountStatus(video_results, "success"),
                  failed_videos |-> CountStatus(video_results, "failed"),
                  music_generated |-> /\ music_result # NullMessage
                                      /\ StatusIs(music_result, "success")]]

\* The log entry log_results builds at clock t.
LogEntry(video_results, music_result, run_id, t) ==
    [run_id |-> run_id,
     timestamp |-> t,
     video_results |-> video_results,
     music_result |-> music_result,
     summary |-> [video_frames |-> Len(video_results),
                  successful_videos |-> CountStatus(video_results, "success"),
                  failed_videos |-> CountStatus(video_results, "failed"),
                  music_generated |-> /\ music_result # NullMessage
                                      /\ StatusIs(music_result, "success")]]

\* What _generate_markdown_summary renders of a log entry.
MarkdownSummary(log_entry) ==
    [run_id |-> log_entry.run_id,
     timestamp |-> log_entry.timestamp,
     overview |-> log_entry.summary,
     videos |-> [i \in 1..Len(log_entry.video_results) |->
                    LET video == log_entry.video_results[i]
                    IN  [frame_id |-> Get(video, "frame_id", <<"Frame", i>>),
                         status |-> Get(video, "status", "unknown"),
                         video_path |-> Get(video, "video_path", <<"Not available">>),
                         image_path |-> Get(video, "image_path", <<"Not available">>),
                         prompt |-> Get(video, "prompt", "")]],
     music |-> IF log_entry.music_result # <<>>
               THEN [status |-> Get(log_entry.music_result, "status", "unknown"),
                     music_path |-> Get(log_entry.music_result, "music_path",
                                        <<"Not available">>)]
               ELSE <<>>]

\* [v.get("video_path") for v in video_results if v.get("status") == "success"]
VideoPaths(video_results) ==
    LET successful == SelectSeq(video_results, LAMBDA v : StatusIs(v, "success"))
    IN  [i \in 1..Len(successful) |-> Get(successful[i], "video_path", None)]

\* LoggerSuccessMessage taking the presence of a music message for its success.
LoggerSuccessMessage_MusicPresent(video_results, music_message, run_id) ==
    [status |-> "success",
     run_id |-> run_id,
     summary |-> [total_frames |-> Len(video_results),
                  successful_videos |-> CountStatus(video_results, "success"),
                  failed_videos |-> CountStatus(video_results, "failed"),
                  music_generated |-> music_message # <<>>,
                  log_file |-> LogFile(run_id)],
     video_paths |-> VideoPaths(video_results),
     music_path |-> Get(music_message, "music_path", None)]

\* The output message of process_input_messages after the results were logged.
LoggerSuccessMessage(video_results, music_message, run_id) ==
    [status |-> "success",
     run_id |-> run_id,
     summary |-> [total_frames |-> Len(video_results),
                  successful_videos |-> CountStatus(video_results, "success"),
                  failed_videos |-> CountStatus(video_results, "failed"),
                  music_generated |-> StatusIs(music_message, "success"),
                  log_file |-> LogFile(run_id)],
     video_paths |-> VideoPaths(video_results),
     music_path |-> Get(music_message, "music_path", None)]

\* The message of the except clause of process_input_messages.
LoggerErrorMessage(text, run_id) == [status |-> "error", error |-> text, run_id |-> run_id]

\* message.get("video_frame_in", {}) and message.get("music_track_in", {})
VideoMessage == Get(stdin, "video_frame_in", <<>>)
MusicMessage == Get(stdin, "music_track_in", <<>>)

\* video_message.get("videos", [])
VideoResults == Get(VideoMessage, "videos", <<>>)

\* The directory with the file written (created or truncated and rewritten).
WriteFile(dir, file, content) ==
    [f \in DOMAIN dir \cup {file} |-> IF f = file THEN content ELSE dir[f]]

\* The logger writes the message to stdout and the process ends, leaving the
\* directory as dir.
LoggerEmit(message, dir) ==
    /\ stdout' = message
    /\ pc' = "done"
    /\ log_dir' = dir
    /\ UNCHANGED <<agent, stdin, use_dify, DIFY_AVAILABLE, credentials, lines, in_flight, now, runs, idx, results,
                   locals, cause, output_file>>

\* What writing a file can do: open(file, 'w') raises and nothing changes;
\* the file is written; the write raises after open has truncated the file.
WriteOutcomes == {"ok", "open_raises", "write_raises"}

\* main and process_input_messages up to the try block: read and parse
\* stdin, take the two messages, log what was received, make the run id,
\* construct ResultLogger (which creates the directory).
LoggerStart ==
    /\ agent = "logger" /\ pc = "start"
    /\ \E mkdir_raises \in BOOLEAN :
         IF stdin = Malformed THEN Emit(ErrorMessage("json"))
         ELSE IF MusicMessage = NullMessage THEN Emit(ErrorMessage("AttributeError"))
         ELSE IF mkdir_raises THEN Emit(ErrorMessage("mkdir"))
         ELSE /\ pc' = "log"
              /\ UNCHANGED <<stdout, config, in_flight, idx, results, locals, cause, output_file>>

\* log_results: build the log entry and write it to the run's log file.
LoggerWriteReport ==
    /\ agent = "logger" /\ pc = "log"
    /\ \E outcome \in WriteOutcomes :
         CASE outcome = "ok" ->
                /\ log_dir' = WriteFile(log_dir, LogFile(RunId(now)),
                                  [kind |-> "report",
                                   entry |-> LogEntry(VideoResults, MusicMessage,
                                                      RunId(now), now)])
                /\ pc' = "summary"
                /\ UNCHANGED <<agent, stdin, use_dify, DIFY_AVAILABLE, credentials, lines, in_flight, now, runs, stdout,
                               idx, results, locals, cause, output_file>>
           [] outcome = "open_raises" ->
                LoggerEmit(LoggerErrorMessage("open", RunId(now)), log_dir)
           [] outcome = "write_raises" ->
                LoggerEmit(LoggerErrorMessage("write", RunId(now)),
                           WriteFile(log_dir, LogFile(RunId(now)),
                                     [kind |-> "partial", timestamp |-> now]))

\* log_results: write the markdown summary; then process_input_messages
\* builds the output message.
LoggerWriteSummary ==
    /\ agent = "logger" /\ pc = "summary"
    /\ \E outcome \in WriteOutcomes :
         CASE outcome = "ok" ->
                LoggerEmit(LoggerSuccessMessage(VideoResults, MusicMessage, RunId(now)),
                           WriteFile(log_dir, SummaryFile(RunId(now)),
                                     [kind |-> "summary",
                                      text |-> MarkdownSummary(
                                                  LogEntry(VideoResults, MusicMessage,
                                                           RunId(now), now))]))
           [] outcome = "open_raises" ->
                LoggerEmit(LoggerErrorMessage("open", RunId(now)), log_dir)
           [] outcome = "write_raises" ->
                LoggerEmit(LoggerErrorMessage("write", RunId(now)),
                           WriteFile(log_dir, SummaryFile(RunId(now)),
                                     [kind |-> "partial", timestamp |-> now]))

\* The runner starts the logger again on the same messages and the same
\* directory, in the same second or in the next one.
LoggerInvoke ==
    /\ agent = "logger" /\ pc = "done" /\ runs < MaxRuns
    /\ runs' = runs + 1
    /\ \E later \in {now + 1, now + 2} : now' = later
    /\ stdout' = None
    /\ pc' = "start"
    /\ UNCHANGED <<agent, stdin, use_dify, DIFY_AVAILABLE, credentials, lines, in_flight, log_dir, idx, results,
                   locals, cause, output_file>>

NextLogger ==
    \/ LoggerStart
    \/ LoggerWriteReport
    \/ LoggerWriteSummary
    \/ LoggerInvoke

\* The messages the runner hands to the logger: a message of the video agent
\* with a message of the music agent, with none, or with a null.
LoggerInputs ==
    {[video_frame_in |-> v, music_track_in |-> m] :
        v \in VideoMessages, m \in MusicMessages \cup {NullMessage}}
    \cup {[video_frame_in |-> v] : v \in VideoMessages}
    \cup {Malformed}

\* The logger starts on the messages of the video and the music agent, with
\* an empty directory.
InitLogger ==
    /\ agent = "logger"
    /\ use_dify = FALSE
    /\ DIFY_AVAILABLE = FALSE
    /\ credentials = TRUE
    /\ stdin \in LoggerInputs
    /\ InitLocals
    /\ lines = <<>>

Init == InitImage \/ InitVideo \/ InitMusic \/ InitParser \/ InitLogger

Next == NextImage \/ NextVideo \/ NextMusic \/ NextParser \/ NextLogger

Spec == Init /\ [][Next]_vars

\* Every step of an agent moves its position: pc, the loop index, the
\* elapsed time of the poll loop or the count of invocations.
progress == <<pc, idx, elapsed, runs>>

\* Largest batch in the runs checked for termination.
MaxFairFrames == 2

\* The number of items in the message on stdin.
BatchSize ==
    CASE agent = "image" -> Len(ImageKeyframes)
      [] agent = "video" -> Len(VideoFrames)
      [] agent = "logger" -> Len(VideoResults)
      [] OTHER -> 0

FairInit == Init /\ BatchSize <= MaxFairFrames

\* Every agent is sequential code of a scheduled process whose outside calls
\* return: a step that can be taken is taken.
FairSpec == FairInit /\ [][Next]_vars /\ WF_progress(Next)

\* The steps that are the agent's own to take: all but the return of the
\* image client's blocking wait, which is the provider's to give.
OwnStep == Next /\ ~(agent = "image" /\ pc = "await")

\* The agents with the fairness their own code guarantees, whatever the
\* provider does: nothing ends the image client's wait but its return.
BlockingWaitSpec == FairInit /\ [][Next]_vars /\ WF_progress(OwnStep)

(* ------------------------------ claims -------------------------------- *)

\* The agents that generate artifacts item by item.
Generators == {"image", "video"}

\* The items of the input batch, the payload of a success message and the
\* field that holds the output path, for the agent that runs.
Items == IF agent = "image" THEN ImageKeyframes ELSE VideoFrames
Payload(message) == IF agent = "image" THEN message.frames ELSE message.videos
PathField == IF agent = "image" THEN "image_path" ELSE "video_path"
HasPath(r) == PathField \in DOMAIN r /\ r[PathField] # None
LastResult == results[Len(results)]
Ceil(a, b) == (a + b - 1) \div b

\* Ways an item fails inside generate / generate_from_image.
Failures == {"read_error", "submit_error", "poll_failed", "poll_error", "timeout",
             "no_artifact", "download_error"}

\* What a status query shows when the job has no terminal status.
NonTerminal == {"no_data", "data_not_dict", "no_task_status", "processing",
                "unknown_status"}

\* C1: in the image and the video agent the failure of an item (submit
\* error, remote status failed, poll timeout, download error) never aborts
\* the batch: after it the agent is back at the head of the loop with the
\* failure recorded, an error message is written only before any item was
\* touched, and the agent ends with a success message holding one result
\* for every input item.
C1_ItemFailureNeverAbortsBatch ==
    agent \in Generators =>
        /\ cause \in Failures =>
             /\ pc = "loop" /\ stdout = None
             /\ Len(results) = idx - 1
             /\ LastResult.status = "failed"
        /\ pc # "done" => stdout = None
        /\ pc = "done" /\ stdout.status = "error" => results = <<>> /\ idx = 1
        /\ pc = "done" /\ stdout.status = "success" =>
             /\ Len(Payload(stdout)) = Len(Items)
             /\ stdout.count = Len(Items)

\* C1 witness: the video agent ended with success after two failed items
\* followed by a successful one.
C1_Witness ==
    /\ agent = "video" /\ pc = "done" /\ stdout.status = "success"
    /\ Len(results) = 3
    /\ results[1].status = "failed" /\ results[2].status = "failed"
    /\ results[3].status = "success"

\* The input item a result belongs to, and the id the result must carry.
ResultMatchesItem(r, i) ==
    IF agent = "image"
    THEN /\ r.original_keyframe = ImageKeyframes[i]
         /\ r.frame_id = <<stdin.metadata.frame_id_prefix,
                           IF ImageKeyframes[i].frame_number \in {None, Some(0)}
                           THEN i ELSE ImageKeyframes[i].frame_number[1]>>
    ELSE /\ r.original_frame = VideoFrames[i]
         /\ r.frame_id = VideoFrames[i].frame_id

\* C2: the result sequence has the length of the input sequence and lists
\* the items' ids in input order, whatever the outcomes: at every moment the
\* i-th result is the result of the i-th item, and the success message
\* holds exactly one result per item.
C2_ResultsFollowInputOrder ==
    agent \in Generators =>
        /\ Len(results) <= Len(Items)
        /\ \A i \in 1..Len(results) : ResultMatchesItem(results[i], i)
        /\ pc = "done" /\ stdout.status = "success" =>
             /\ Payload(stdout) = results
             /\ Len(results) = Len(Items)

\* C2 witness: a finished video batch holding a success, a failed and a
\* skipped result.
C2_Witness ==
    /\ agent = "video" /\ pc = "done" /\ stdout.status = "success"
    /\ {results[i].status : i \in 1..Len(results)} = {"success", "failed", "skipped"}

\* C3: the video poll loop stops on the first status query that reports
\* succeed: the loop is left (no further query), and no sleep was taken
\* after that query, so elapsed counts one interval per earlier query.
C3_SuccessStopsPolling ==
    last_status = "succeed" =>
        /\ pc \in {"download", "loop"}
        /\ pc = "download" => cause = "none"
        /\ pc = "loop" => cause \in {"success", "download_error", "no_artifact"}
        /\ elapsed = check_interval * (calls.poll - 1)

\* C3 witness: the third status query reported succeed and the download is next.
C3_Witness == last_status = "succeed" /\ pc = "download" /\ calls.poll = 3

\* C4: on a status query that reports failed the loop returns at once with a
\* failure for the item: no further query, no sleep, one submit only, no
\* download.
C4_FailedStatusReturnsAtOnce ==
    last_status = "failed" =>
        /\ pc = "loop" /\ cause = "poll_failed"
        /\ LastResult.status = "failed" /\ LastResult.video_path = None
        /\ elapsed = check_interval * (calls.poll - 1)
        /\ calls.submit = 1 /\ calls.download = 0

\* C4 witness: the second status query reported failed.
C4_Witness == last_status = "failed" /\ calls.poll = 2 /\ cause = "poll_failed"

\* C5: a timeout is reported exactly when the accumulated wait has reached
\* max_wait_time without a terminal status: never below it, every status
\* query was issued below it, and once it is reached the only thing left is
\* the timeout.
C5_TimeoutExactlyAtMaxWait ==
    /\ cause = "timeout" => elapsed >= max_wait_time /\ last_status \in NonTerminal
    /\ calls.poll > 0 => check_interval * (calls.poll - 1) < max_wait_time
    /\ elapsed >= max_wait_time =>
         \/ pc = "poll" /\ cause = "none" /\ last_status \in NonTerminal
         \/ pc = "loop" /\ cause = "timeout"

\* C5 witness: the wait has reached max_wait_time and the timeout is recorded.
C5_Witness == cause = "timeout" /\ elapsed = max_wait_time

\* The queries of a job that never ends, for the agent's wait and interval
\* and for a wait of 10 with an interval of 5.
TimeoutPollCount == PollsUntilTimeout(0, max_wait_time, check_interval)
ScenarioPollCount == PollsUntilTimeout(0, 10, 5)

\* C6: when no status query is terminal the loop issues exactly
\* ceil(max_wait / interval) queries, 60 for the agent's 300 and 5 and 2 for
\* a wait of 10 and an interval of 5, and then the item is recorded failed.
C6_PollCountBeforeTimeout ==
    /\ cause = "timeout" =>
         /\ calls.poll = Ceil(max_wait_time, check_interval)
         /\ calls.poll = 60
         /\ calls.download = 0
         /\ LastResult.status = "failed" /\ LastResult.video_path = None
    /\ TimeoutPollCount = 60
    /\ ScenarioPollCount = 2

\* C6 witness: a timed out item is recorded and a later item is still to come.
C6_Witness == cause = "timeout" /\ pc = "loop" /\ idx <= Len(VideoFrames)

C8_UnrecognizedStatusIsPending ==
    last_status \in {"unknown_status", "no_data", "data_not_dict", "no_task_status"} =>
        \/ /\ pc \in {"poll", "await"} /\ cause = "none"
           /\ elapsed = check_interval * calls.poll
        \/ /\ pc = "loop" /\ cause = "timeout"
           /\ elapsed >= max_wait_time

\* C8 witness: the second status query carried an unrecognized status and
\* the loop is about to query again.
C8_Witness ==
    /\ last_status = "unknown_status" /\ pc = "poll" /\ calls.poll = 2
    /\ PollLoopContinues(elapsed, max_wait_time)

\* C9: a video frame with no image is recorded as skipped with no submit,
\* status query, download or prompt enhancement made for it, only such
\* frames are skipped, and the frames after it get their results.
C9_NoImageIsSkippedWithoutCalls ==
    agent = "video" =>
        /\ \A i \in 1..Len(results) :
             IF VideoFrames[i].image_path = None
             THEN results[i].status = "skipped"
             ELSE results[i].status \in {"success", "failed"}
        /\ cause = "skipped" => calls = NoCalls /\ LastResult.status = "skipped"
        /\ pc = "done" /\ stdout.status = "success" => Len(results) = Len(VideoFrames)

\* C9 witness: a skipped frame is followed by a frame whose video was just
\* made with a submit and a download.
C9_Witness ==
    /\ agent = "video"
    /\ \E i \in 1..(Len(results) - 1) :
         /\ results[i].status = "skipped"
         /\ results[i + 1].status = "success"
    /\ cause = "success" /\ calls.submit = 1 /\ calls.download = 1

\* C10: every result of the image agent and of the video agent has status
\* success, failed or skipped, and carries an output path exactly when the
\* status is success.
C10_PathIffSuccess ==
    agent \in Generators =>
        /\ \A i \in 1..Len(results) :
             /\ results[i].status \in {"success", "failed", "skipped"}
             /\ HasPath(results[i]) <=> results[i].status = "success"
        /\ pc = "done" /\ stdout.status = "success" =>
             \A i \in 1..Len(Payload(stdout)) :
                 HasPath(Payload(stdout)[i]) <=> Payload(stdout)[i].status = "success"

\* C10 witness: the video agent has stored a failed, a skipped and a
\* successful result, in this order.
C10_Witness ==
    /\ agent = "video" /\ Len(results) = 3
    /\ results[1].status = "failed" /\ ~HasPath(results[1])
    /\ results[2].status = "skipped" /\ ~HasPath(results[2])
    /\ results[3].status = "success" /\ HasPath(results[3])

\* The error reason of a result, where it carries one.
HasReason(r) == "reason" \in DOMAIN r /\ r.reason # None

\* C11: every result of the image agent and of the video agent carries
\* exactly one of an output path and an error reason: a failed and a skipped
\* result carry a reason and no path, a success result a path and no reason.
C11_ExactlyOneOfPathAndReason ==
    \A i \in 1..Len(results) :
        /\ results[i].status \in {"failed", "skipped"} =>
              HasReason(results[i]) /\ ~HasPath(results[i])
        /\ results[i].status = "success" =>
              HasPath(results[i]) /\ ~HasReason(results[i])

\* The report files of the directory and the summary of a success message.
Reports == {f \in DOMAIN log_dir : log_dir[f].kind = "report"}
LoggerSucceeded == agent = "logger" /\ pc = "done" /\ StatusIs(stdout, "success")

\* C12: for every list of video results handed to the result logger, lists
\* with skipped results included, the counters of the persisted report and
\* of the output message satisfy successful + failed = total.
C12_SuccessfulPlusFailedIsTotal ==
    /\ \A f \in Reports :
         LET summary == log_dir[f].entry.summary
         IN  summary.successful_videos + summary.failed_videos = summary.video_frames
    /\ LoggerSucceeded =>
         stdout.summary.successful_videos + stdout.summary.failed_videos
             = stdout.summary.total_frames

\* The pipeline ran a batch of three keyframes in which the provider made
\* the first and the third item and failed for the second, at the image
\* stage (the video stage then skips it) or at the video stage.
ScenarioA ==
    /\ Len(VideoResults) = 3
    /\ StatusIs(VideoResults[1], "success")
    /\ ~StatusIs(VideoResults[2], "success")
    /\ StatusIs(VideoResults[3], "success")

\* C13: for a batch of three keyframes of which the provider makes the first
\* and the third and fails the second, at whichever stage, the report says
\* total 3, successful 2, failed 1, and the second result carries an error
\* reason and no output path.
C13_ScenarioAReport ==
    LoggerSucceeded /\ ScenarioA =>
        /\ stdout.summary.total_frames = 3
        /\ stdout.summary.successful_videos = 2
        /\ stdout.summary.failed_videos = 1
        /\ \A f \in Reports :
             /\ log_dir[f].entry.summary.video_frames = 3
             /\ log_dir[f].entry.summary.successful_videos = 2
             /\ log_dir[f].entry.summary.failed_videos = 1
             /\ HasReason(log_dir[f].entry.video_results[2])
             /\ ~("video_path" \in DOMAIN log_dir[f].entry.video_results[2]
                  /\ log_dir[f].entry.video_results[2].video_path # None)

\* The music message on the logger's stdin: there and with status success,
\* and missing or with status error.
MusicSucceeded ==
    /\ "music_track_in" \in DOMAIN stdin
    /\ stdin.music_track_in # NullMessage
    /\ StatusIs(stdin.music_track_in, "success")
MusicFailedOrMissing ==
    /\ stdin # Malformed
    /\ \/ "music_track_in" \notin DOMAIN stdin
       \/ StatusIs(stdin.music_track_in, "error")

\* The report of the running invocation is in the directory.
ReportPersisted ==
    /\ LogFile(RunId(now)) \in Reports
    /\ log_dir[LogFile(RunId(now))].entry.timestamp = now

\* C14: in the result logger music_generated, in the report and in the
\* output message, is true exactly when a music message is there with
\* status success; when the music message is missing or has status error
\* music_generated is false, and the invocation still ends with the report
\* persisted and a success message unless the disk fails (creating the
\* directory or writing one of the two files).
C14_MusicGeneratedIffMusicSuccess ==
    agent = "logger" =>
        /\ \A f \in Reports : log_dir[f].entry.summary.music_generated <=> MusicSucceeded
        /\ LoggerSucceeded => (stdout.summary.music_generated <=> MusicSucceeded)
        /\ pc = "done" /\ MusicFailedOrMissing =>
             \/ /\ StatusIs(stdout, "success")
                /\ ReportPersisted
                /\ ~stdout.summary.music_generated
                /\ ~log_dir[LogFile(RunId(now))].entry.summary.music_generated
             \/ /\ StatusIs(stdout, "error")
                /\ stdout.error \in {"mkdir", "open", "write"}

\* C14 witness: the logger ended with success on a music message with
\* status error and a video list with a successful video.
C14_Witness ==
    /\ LoggerSucceeded /\ ReportPersisted
    /\ "music_track_in" \in DOMAIN stdin /\ StatusIs(stdin.music_track_in, "error")
    /\ ~stdout.summary.music_generated
    /\ stdout.summary.successful_videos > 0

\* The input lets the stage do no work: the document is malformed, the
\* required field is missing, or the item list is missing or empty.
InputError ==
    \/ stdin = Malformed
    \/ agent = "parser" /\ Get(stdin, "keyframes_file", "") = ""
    \/ agent = "image" /\ ImageKeyframes = <<>>
    \/ agent = "video" /\ VideoFrames = <<>>

\* The message carries status error and an error string.
IsErrorMessage(message) == StatusIs(message, "error") /\ "error" \in DOMAIN message

\* C15: whenever a stage (parser, image, video, music, logger) cannot do its
\* work because of an input or internal error, the message it writes
\* carries status error and an error string: every message written on an
\* input error, and every message that is not a success message, does.
C15_ErrorMessageIsWellFormed ==
    pc = "done" =>
        /\ InputError => IsErrorMessage(stdout)
        /\ ~StatusIs(stdout, "success") => IsErrorMessage(stdout)

Kept(f) == f \in DOMAIN log_dir' /\ log_dir'[f] = log_dir[f]

\* The clock reading a file's content was written at, and its second.
WrittenAt(content) ==
    CASE content.kind = "report" -> content.entry.timestamp
      [] content.kind = "summary" -> content.text.timestamp
      [] OTHER -> content.timestamp
SecondOf(t) == t \div 2

C18_FrameIdsDistinct ==
    agent = "image" =>
        \A i, j \in 1..Len(results) :
            i # j => results[i].frame_id # results[j].frame_id

\* The frame ids of a sequence of results, in order.
FrameIds(rs) == [i \in 1..Len(rs) |-> rs[i].frame_id]

\* C19: an item's id is carried unchanged downstream: every result of the
\* video agent, successful, failed or skipped, carries the frame id of its
\* input frame, in the results list and in the message written, and the
\* report and the summary the result logger writes list the results with
\* the ids they arrived with.
C19_FrameIdCarriedUnchanged ==
    /\ agent = "video" =>
         /\ \A i \in 1..Len(results) : results[i].frame_id = VideoFrames[i].frame_id
         /\ pc = "done" /\ StatusIs(stdout, "success") =>
               FrameIds(stdout.videos) = FrameIds(VideoFrames)
    /\ agent = "logger" =>
         \A f \in DOMAIN log_dir :
             /\ log_dir[f].kind = "report" =>
                   /\ FrameIds(log_dir[f].entry.video_results) = FrameIds(VideoResults)
                   /\ \A i \in 1..Len(VideoResults) :
                        VideoResults[i].frame_id
                            = VideoResults[i].original_frame.frame_id
             /\ log_dir[f].kind = "summary" =>
                   FrameIds(log_dir[f].text.videos) = FrameIds(VideoResults)

\* C19 witness: the logger has written the report and the summary of a
\* list holding a successful, a skipped and a failed video.
C19_Witness ==
    /\ LoggerSucceeded /\ ReportPersisted
    /\ SummaryFile(RunId(now)) \in DOMAIN log_dir
    /\ Len(VideoResults) = 3
    /\ StatusIs(VideoResults[1], "success")
    /\ StatusIs(VideoResults[2], "skipped")
    /\ StatusIs(VideoResults[3], "failed")

\* C20: for every download of the image and the video agent, an item
\* reported success has the artifact at its output path, and after a
\* download that failed (the request raised, the server answered with an
\* error, the write raised) no file is left at the output path and the
\* item is not reported success.
C20_DownloadAllOrNothing ==
    agent \in Generators /\ cause \in {"success", "download_error"} =>
        /\ LastResult.status = "success" => output_file = "artifact"
        /\ output_file # "artifact" =>
              output_file = "absent" /\ LastResult.status # "success"

\* The positions of the wait for the current item's job.
Waiting == {"poll", "wait", "await"}

\* A step that issues a status query (the image client's wait included).
IssuesPoll == calls'.poll > calls.poll

\* A step that attempts a download.
IssuesDownload == calls'.download > calls.download

\* The submit of the current item returned a job handle and the item has
\* not ended.
SubmitReturned == calls.submit = 1 /\ cause = "none" /\ pc = "await"

\* The step leaves the wait for the current item's job.
LeavesWait == pc \in Waiting /\ pc' \notin Waiting

\* The protocol order within one item, with Exits the values of last_status
\* on which the video poll loop may be left before the timeout.
ProtocolOrder(Exits) ==
    /\ IssuesPoll => SubmitReturned
    /\ IssuesDownload =>
          /\ pc = "download" /\ calls.submit = 1 /\ calls.poll >= 1
          /\ agent = "video" => last_status = "succeed"
    /\ pc \in Waiting /\ ~LeavesWait =>
          UNCHANGED <<idx, results, stdout, output_file>>
    /\ LeavesWait =>
          /\ agent = "image" => IssuesPoll
          /\ agent = "video" =>
                \/ IssuesPoll /\ last_status' \in Exits
                \/ ~IssuesPoll /\ elapsed >= max_wait_time /\ cause' = "timeout"

InItem ==
    \/ pc \in {"submit", "poll", "wait", "await", "download"}
    \/ agent = "image" /\ pc = "loop" /\ idx <= Len(ImageKeyframes)

\* The frame id a result of the item at position i carries.
ItemFrameId(i) ==
    IF agent = "image"
    THEN FrameId(frame_id_prefix, FrameNumber(ImageKeyframes[i], i))
    ELSE VideoFrames[i].frame_id

\* C22: the items are processed strictly one after the other in input
\* order.  Every step of the remote work (submit, poll, download) is made
\* for the item at the loop's position, when every earlier item has its
\* result stored and no later item has been begun; the position never goes
\* back and advances by one, exactly when the item's result is stored.
C22_ItemsInInputOrder ==
    [][(agent \in Generators) =>
          /\ idx' \in {idx, idx + 1}
          /\ InItem => idx <= Len(Items) /\ Len(results) = idx - 1
          /\ idx' = idx + 1 =>
                /\ Len(results') = idx
                /\ SubSeq(results', 1, idx - 1) = results
                /\ results'[idx].frame_id = ItemFrameId(idx)
          /\ idx' = idx => results' = results]_vars

\* C22 witness: the third item of an image batch is at its download, the
\* first two items have their results, a failed one and a successful one.
C22_Witness ==
    /\ agent = "image" /\ pc = "download" /\ idx = 3 /\ Len(results) = 2
    /\ results[1].status = "failed" /\ results[2].status = "success"
    /\ calls.submit = 1 /\ calls.poll = 1

\* The video agent has taken up the frame at the loop position and the
\* frame's result is not stored yet.
VideoItemRunning == agent = "video" /\ pc \in {"submit", "poll", "await", "download"}

\* The enhancer is asked: the flag is on and the import succeeded.
EnhancerAsked == use_dify /\ DIFY_AVAILABLE

\* C23: prompt enhancement is best-effort in the video stage.  With the
\* flag off or the enhancer unavailable the prompt sent to the provider,
\* which the result records, is the frame's prompt unchanged; when the
\* enhancer is asked the prompt is its answer or, when it raised, the
\* frame's prompt; and whatever the enhancer does, a frame with an image
\* goes on to its submit: the enhancer neither fails nor skips it.
C23_EnhancementIsBestEffort ==
    /\ [](VideoItemRunning =>
            /\ ~EnhancerAsked =>
                  prompt = VideoFrames[idx].prompt /\ calls.enhance = 0
            /\ EnhancerAsked =>
                  /\ calls.enhance = 1
                  /\ prompt \in {VideoFrames[idx].prompt,
                                 EnhancedPrompt(VideoFrames[idx].prompt)})
    /\ [](agent = "video" /\ pc = "loop" /\ cause \notin {"none", "skipped"} =>
            /\ LastResult.prompt = prompt
            /\ ~EnhancerAsked => LastResult.prompt = LastResult.original_frame.prompt)
    /\ [][agent = "video" /\ pc = "loop" /\ idx <= Len(VideoFrames)
            /\ ~VideoHasNoImage(VideoFrames[idx]) =>
               pc' = "submit" /\ idx' = idx /\ results' = results
               /\ calls'.submit = 0]_vars

\* C23 witness: the enhancer was asked and raised, the frame's own prompt
\* was submitted, and the item ended in success with that prompt.
C23_Witness ==
    /\ agent = "video" /\ EnhancerAsked /\ pc = "loop" /\ cause = "success"
    /\ calls.enhance = 1 /\ calls.submit = 1
    /\ LastResult.prompt = LastResult.original_frame.prompt
    /\ LastResult.status = "success"

\* C24: the image stage bounds its wait for each item's job: a wait for an
\* image job always ends, with the item's result stored (failed when the
\* provider reported no end of the job) and the batch going on, whether or
\* not the provider ever reports a terminal status.
C24_ImageWaitIsBounded ==
    (agent = "image" /\ pc \in {"wait", "await"})
        ~> (agent = "image" /\ pc \in {"download", "loop", "done"})

\* The stage-level errors a generator can answer with whether or not the
\* credentials are set: unreadable input, the output directory, an empty
\* batch, a setting that does not parse, the client class.
OtherStageErrors ==
    {"json", "mkdir", "config_error", "client_error",
     "No keyframes provided in input message", "No frames provided in input message"}

\* A remote call was attempted for the item of the result.
Attempted(r) == r.status # "skipped"

\* C25: provider credentials that are absent do not stop a stage.  The
\* configuration is loaded with a warning, the stage goes through its
\* whole batch and answers success with one result per item, every item
\* for which a remote call was attempted being failed (no job is polled and
\* nothing is downloaded); the only stage-level errors are those that the
\* credentials have no part in.  The music agent, whose one item is the
\* stage, answers with its error message.
C25_MissingCredentialsFailItemsOnly ==
    ~credentials =>
        /\ agent \in Generators =>
              /\ pc \notin {"poll", "wait", "await", "download"}
              /\ \A i \in 1..Len(results) :
                    Attempted(results[i]) =>
                        results[i].status = "failed" /\ ~HasPath(results[i])
              /\ pc = "done" =>
                    \/ /\ StatusIs(stdout, "success")
                       /\ Len(Payload(stdout)) = Len(Items) /\ Len(Items) > 0
                    \/ /\ StatusIs(stdout, "error")
                       /\ stdout.error \in OtherStageErrors
        /\ agent = "music" /\ pc = "done" => IsErrorMessage(stdout)

\* C25 witness: without credentials the video agent has answered success
\* for a batch of three, two items failed at their submit and one skipped.
C25_Witness ==
    /\ ~credentials /\ agent = "video" /\ pc = "done" /\ StatusIs(stdout, "success")
    /\ Len(stdout.videos) = 3
    /\ stdout.videos[1].status = "failed"
    /\ stdout.videos[2].status = "skipped"
    /\ stdout.videos[3].status = "failed"

\* The image agent's result for the frame says that the image failed.
ImageFailed(frame) == frame.status = "failed" /\ frame.image_path = None

\* The result at position i of the list is there, is skipped, and names
\* the frame.
RecordedSkipped(rs, i, frame) ==
    /\ i <= Len(rs)
    /\ rs[i].status = "skipped" /\ rs[i].status # "success"
    /\ rs[i].frame_id = frame.frame_id

\* C26: across the image stage and the video stage an item whose image
\* generation failed (the image agent records it failed with image_path
\* null) is recorded skipped by the video agent, never success, in its
\* results and in its message; and every report and summary the result
\* logger writes holds, at the item's position, a result for it that says
\* skipped.
C26_FailedImageIsSkippedAndReported ==
    /\ agent = "image" =>
          \A i \in 1..Len(results) :
              results[i].status = "failed" <=> results[i].image_path = None
    /\ agent = "video" =>
          /\ \A i \in 1..Len(results) :
                ImageFailed(VideoFrames[i]) =>
                    RecordedSkipped(results, i, VideoFrames[i])
          /\ pc = "done" /\ StatusIs(stdout, "success") =>
                \A i \in 1..Len(VideoFrames) :
                    ImageFailed(VideoFrames[i]) =>
                        RecordedSkipped(stdout.videos, i, VideoFrames[i])
    /\ agent = "logger" =>
          \A f \in DOMAIN log_dir : \A i \in 1..Len(VideoResults) :
              ImageFailed(VideoResults[i].original_frame) =>
                  /\ log_dir[f].kind = "report" =>
                        RecordedSkipped(log_dir[f].entry.video_results, i,
                                        VideoResults[i].original_frame)
                  /\ log_dir[f].kind = "summary" =>
                        RecordedSkipped(log_dir[f].text.videos, i,
                                        VideoResults[i].original_frame)

\* C26 witness: the logger has written the report and the summary of a run
\* of two items, the first with its video, the second with a failed image.
C26_Witness ==
    /\ LoggerSucceeded /\ ReportPersisted
    /\ SummaryFile(RunId(now)) \in DOMAIN log_dir
    /\ Len(VideoResults) = 2
    /\ StatusIs(VideoResults[1], "success")
    /\ ImageFailed(VideoResults[2].original_frame)
    /\ log_dir[LogFile(RunId(now))].entry.video_results[2].status = "skipped"

\* The results carry, position by position, the frames of the input
\* message as original_frame.
CarryInputFrames(rs) ==
    \A i \in 1..Len(rs) :
        /\ rs[i].original_frame = VideoFrames[i]
        /\ rs[i].original_frame.prompt = VideoFrames[i].prompt

\* C27: every result of the video agent, skipped ones included, carries in
\* original_frame the input frame as it was received, field for field, in
\* the results list and in the message written; the prompt sent, enhanced
\* or not, is recorded in the result's own prompt field only.
C27_OriginalFrameUnchanged ==
    agent = "video" =>
        /\ CarryInputFrames(results)
        /\ pc = "done" /\ StatusIs(stdout, "success") =>
              Len(stdout.videos) = Len(VideoFrames) /\ CarryInputFrames(stdout.videos)

\* C27 witness: the message written holds a result whose prompt is the
\* enhanced one while its original_frame has the prompt that arrived.
C27_Witness ==
    /\ agent = "video" /\ pc = "done" /\ StatusIs(stdout, "success")
    /\ \E i \in 1..Len(stdout.videos) :
          /\ stdout.videos[i].status = "success"
          /\ stdout.videos[i].prompt = EnhancedPrompt(VideoFrames[i].prompt)
          /\ stdout.videos[i].original_frame.prompt = VideoFrames[i].prompt

\* No item of the results succeeded.
NoneSucceeded(rs) == \A i \in 1..Len(rs) : rs[i].status \in {"failed", "skipped"}

\* C28: the status of a generator's message tells of stage-level errors
\* only.  When the loop went through a batch that is not empty and every
\* item failed or was skipped, the image agent and the video agent still
\* answer status success with the whole list of results; status error is
\* answered only when no item was processed.
C28_StatusIgnoresItemOutcomes ==
    agent \in Generators /\ pc = "done" =>
        /\ Len(Items) > 0 /\ Len(results) = Len(Items) /\ NoneSucceeded(results) =>
              /\ StatusIs(stdout, "success")
              /\ Payload(stdout) = results
              /\ stdout.count = Len(Items)
        /\ StatusIs(stdout, "error") => results = <<>>

\* C28 witness: the image agent answered success for a batch of three
\* keyframes all of which failed.
C28_Witness ==
    /\ agent = "image" /\ credentials /\ pc = "done" /\ StatusIs(stdout, "success")
    /\ Len(stdout.frames) = 3
    /\ \A i \in 1..3 : stdout.frames[i].status = "failed"

\* The stages whose success message carries a payload list and its count.
Counting == {"parser", "image", "video"}

\* The payload list of a stage's success message.
PayloadList(message) ==
    CASE agent = "parser" -> message.keyframes
      [] agent = "image" -> message.frames
      [] agent = "video" -> message.videos

\* The key the payload list is stored under.
PayloadKey ==
    CASE agent = "parser" -> "keyframes"
      [] agent = "image" -> "frames"
      [] agent = "video" -> "videos"

\* C29: in every status success message of the parser, the image agent and
\* the video agent the payload list is present under its key, count equals
\* the number of entries of that list, whatever their statuses, and a
\* metadata mapping is present.
C29_CountIsPayloadLength ==
    agent \in Counting /\ pc = "done" /\ StatusIs(stdout, "success") =>
        /\ {PayloadKey, "count", "metadata"} \subseteq DOMAIN stdout
        /\ stdout.count = Len(PayloadList(stdout))
        /\ DOMAIN stdout.metadata # {}
        /\ agent = "parser" => "frame_id_prefix" \in DOMAIN stdout.metadata
        /\ agent \in Generators => "output_dir" \in DOMAIN stdout.metadata

\* C29 witness: the image agent's message counts two frames, one of them
\* failed.
C29_Witness ==
    /\ agent = "image" /\ pc = "done" /\ StatusIs(stdout, "success")
    /\ stdout.count = 2 /\ Len(stdout.frames) = 2
    /\ stdout.frames[1].status = "failed" /\ stdout.frames[2].status = "success"

\* The loop state of the agent: what the poll loop and the for loop write.
loop_state == <<elapsed, results, idx, calls, last_status, cause, output_file>>

\* C30: while a batch is processed at most one remote call is in flight.
\* A call handed to a worker thread is in flight exactly while the
\* coroutine awaits it; no other call (submit, status query, download) is
\* begun and nothing of the loop state (elapsed, the response read, the
\* results) is written until it has returned and its pool is closed; the
\* loop reads the response, sleeps and queries again only after that.
C30_OneCallInFlight ==
    /\ [](in_flight \in {0, 1})
    /\ [](in_flight = 1 <=> agent \in Generators /\ pc = "await")
    /\ [][in_flight' > in_flight => in_flight = 0 /\ UNCHANGED loop_state]_vars
    /\ [][in_flight = 1 /\ in_flight' # 0 => UNCHANGED loop_state]_vars
    /\ [][loop_state' # loop_state => in_flight' = 0]_vars

\* C30 witness: the third status query of the second item of a video batch
\* is in flight.
C30_Witness ==
    /\ agent = "video" /\ pc = "await" /\ in_flight = 1
    /\ idx = 2 /\ Len(results) = 1 /\ calls.poll = 2 /\ elapsed = 2 * check_interval

\* The number of results whose status is neither success nor failed.
OtherVideos(video_results) ==
    Cardinality({i \in 1..Len(video_results) :
                    ~StatusIs(video_results[i], "success")
                        /\ ~StatusIs(video_results[i], "failed")})

\* C31: in the summary of every report the result logger writes, and in the
\* summary of its success message, successful_videos plus failed_videos
\* plus the number of results whose status is neither success nor failed
\* is the total frame count, which is the length of the list; so
\* successful_videos plus failed_videos never exceeds the total.
C31_CountersPartitionTheResults ==
    /\ \A f \in Reports :
          LET entry == log_dir[f].entry
          IN  /\ entry.summary.video_frames = Len(entry.video_results)
              /\ entry.summary.successful_videos + entry.summary.failed_videos
                    + OtherVideos(entry.video_results) = entry.summary.video_frames
              /\ entry.summary.successful_videos + entry.summary.failed_videos
                    <= entry.summary.video_frames
    /\ LoggerSucceeded =>
          /\ stdout.summary.total_frames = Len(VideoResults)
          /\ stdout.summary.successful_videos + stdout.summary.failed_videos
                + OtherVideos(VideoResults) = stdout.summary.total_frames
          /\ stdout.summary.successful_videos + stdout.summary.failed_videos
                <= stdout.summary.total_frames

\* C31 witness: the logger answered success for three results, one
\* successful, one failed and one skipped, and its report counts 1, 1 and 3.
C31_Witness ==
    /\ LoggerSucceeded /\ ReportPersisted
    /\ stdout.summary.total_frames = 3
    /\ stdout.summary.successful_videos = 1 /\ stdout.summary.failed_videos = 1
    /\ OtherVideos(VideoResults) = 1
    /\ log_dir[LogFile(RunId(now))].entry.summary.failed_videos = 1

\* The file holds, whole, what the invocation at the clock's time wrote.
WrittenNow(file, kind) ==
    /\ file \in DOMAIN log_dir
    /\ log_dir[file].kind = kind
    /\ WrittenAt(log_dir[file]) = now

\* C32: the result logger's outcome is all or nothing.  It answers status
\* success only when the report file and the summary file of the run id
\* were both written by the invocation, and whenever it answers status
\* error no report file of that run id is in the directory.
C32_ReportAllOrNothing ==
    agent = "logger" /\ pc = "done" =>
        /\ StatusIs(stdout, "success") =>
              /\ WrittenNow(LogFile(RunId(now)), "report")
              /\ WrittenNow(SummaryFile(RunId(now)), "summary")
        /\ StatusIs(stdout, "error") => LogFile(RunId(now)) \notin Reports

\* The outcomes of an item for which generate_from_image never reached
\* create_image_to_video_task, and those for which it did.
NeverSubmitted == {"skipped", "read_error"}
Submitted == {"submit_error", "poll_failed", "poll_error", "timeout", "no_artifact",
              "download_error", "success"}

\* C33: each item of the video stage causes at most one submit call: a
\* skipped item and an item whose source image cannot be read cause none,
\* every other item exactly one, and a submit call is made only for an item
\* that has had none, so never again after a failed status, a timeout or a
\* download error.
C33_OneSubmitPerItem ==
    [][(agent = "video") =>
          /\ calls'.submit <= 1
          /\ cause' \in NeverSubmitted => calls'.submit = 0
          /\ cause' \in Submitted => calls'.submit = 1
          /\ calls'.submit > calls.submit =>
                /\ calls.submit = 0 /\ calls.poll = 0 /\ calls.download = 0
                /\ cause = "none" /\ pc = "submit"]_vars

\* C33 witness: the third item of a batch timed out after its one submit
\* call, after a skipped first item and a successful second one.
C33_Witness ==
    /\ agent = "video" /\ pc = "loop" /\ Len(results) = 3
    /\ cause = "timeout" /\ calls.submit = 1 /\ calls.poll > 0
    /\ StatusIs(results[1], "skipped") /\ StatusIs(results[2], "success")
    /\ StatusIs(results[3], "failed")

\* The states of the video agent inside the while loop of generate_from_image.
InPollLoop == agent = "video" /\ pc \in {"poll", "await"}

\* C34: in the poll loop of the video agent elapsed starts at 0, changes
\* only by growing by check_interval after a poll whose answer is not
\* terminal, is a multiple of check_interval in every state, and a poll is
\* issued only while elapsed is strictly below max_wait_time; so elapsed
\* never exceeds max_wait_time, which check_interval divides.
C34_ElapsedCountsSleeps ==
    [][(agent = "video") =>
          /\ elapsed' % check_interval = 0
          /\ elapsed' <= max_wait_time
          /\ (pc = "submit" /\ pc' = "poll") => elapsed' = 0
          /\ (InPollLoop /\ elapsed' # elapsed) =>
                /\ elapsed' = elapsed + check_interval
                /\ pc = "await" /\ pc' = "poll"
                /\ calls'.poll = calls.poll + 1
                /\ last_status' \in NonTerminal
          /\ (InPollLoop /\ pc' = "poll") =>
                (elapsed' = elapsed + check_interval <=> pc = "await")
          /\ in_flight' > in_flight => elapsed < max_wait_time
          /\ pc' = "await" => elapsed' < max_wait_time]_vars

\* C34 witness: sixty polls found the job pending, elapsed has reached
\* max_wait_time and the loop condition is about to fail.
C34_Witness ==
    /\ agent = "video" /\ pc = "poll"
    /\ elapsed = max_wait_time /\ calls.poll = max_wait_time \div check_interval

\* C35: when a job of the video agent reaches the status succeed and its
\* result holds no video entry with a url, or a completed task of the image
\* agent holds no image, the item is recorded as failed with no output
\* path, and no download is attempted: no call is made for the file and
\* no file is written.
C35_NoArtifactIsFailureWithoutDownload ==
    [][(agent \in Generators /\ cause' = "no_artifact") =>
          /\ pc = "await" /\ pc' = "loop"
          /\ Len(results') = Len(results) + 1
          /\ StatusIs(results'[Len(results')], "failed")
          /\ PathField \in DOMAIN results'[Len(results')]
          /\ results'[Len(results')][PathField] = None
          /\ calls'.download = 0
          /\ calls'.poll = calls.poll + 1
          /\ output_file' = "absent"
          /\ agent = "video" => last_status' = "succeed"]_vars

\* C35 witness: the video agent has recorded a job that succeeded with no
\* video url as its second, failed item.
C35_Witness ==
    /\ agent = "video" /\ pc = "loop" /\ cause = "no_artifact"
    /\ last_status = "succeed" /\ Len(results) = 2
    /\ StatusIs(results[2], "failed") /\ calls.download = 0

\* C36: when the input message of the image or the video agent holds no
\* items (no keyframes / frames list, or an empty one), the agent writes a
\* message with status error, makes no remote call and records no item
\* result.
C36_NoItemsIsAnError ==
    [][(agent \in Generators /\ stdin # Malformed /\ Items = <<>>) =>
          /\ results' = <<>>
          /\ calls' = NoCalls /\ in_flight' = 0
          /\ pc' \in {"start", "done"}
          /\ pc' = "done" => IsErrorMessage(stdout')]_vars

\* C36 witness: the video agent read a message whose frames list is empty
\* and answered that no frames were provided.
C36_Witness ==
    /\ agent = "video" /\ pc = "done"
    /\ "frames" \in DOMAIN stdin /\ stdin.frames = <<>>
    /\ stdout = ErrorMessage("No frames provided in input message")
    /\ results = <<>>

\* The blocks of the keyframe file: block 0 is before the first separator,
\* block b after the b-th; a line belongs to the block that counts the
\* separators before it.
Separators == {i \in 1..Len(lines) : lines[i].kind = "separator"}
BlockOf(i) == Cardinality({j \in Separators : j < i})
BlockLines(b) == {i \in (1..Len(lines)) \ Separators : BlockOf(i) = b}

\* The lines that set a field: "key: value" lines with the field's key (in
\* any case) and, for the numbers, a value that is a number.
Settings(field) ==
    {i \in 1..Len(lines) :
        /\ lines[i].kind = "pair"
        /\ CASE field = "prompt" -> lines[i].key \in {"prompt", "Prompt"}
             [] field = "negative_prompt" -> lines[i].key = "negative_prompt"
             [] field = "frame_number" ->
                    lines[i].key = "frame" /\ lines[i].value \in {"0", "1", "7"}
             [] field = "seed" ->
                    lines[i].key = "seed" /\ lines[i].value \in {"0", "1", "7"}}

\* The blocks with a prompt line, and the k-th of them in file order.
PromptBlocks ==
    {b \in 0..Cardinality(Separators) : BlockLines(b) \cap Settings("prompt") # {}}
NthPromptBlock(k) ==
    CHOOSE b \in PromptBlocks : Cardinality({c \in PromptBlocks : c < b}) = k - 1

\* What block b says of the field: the value of its last line that sets
\* it, None when no line of the block does.
SaidIn(b, field) ==
    LET said == BlockLines(b) \cap Settings(field)
    IN  IF said = {} THEN None
        ELSE Some(lines[CHOOSE i \in said : \A j \in said : j <= i].value)

\* The decimal a keyframe's optional number is written as.
Written10(v) == IF v = None THEN None ELSE Some(CHOOSE t \in {"0", "1", "7"} : IntLiterals[t] = v[1])

\* C37: the keyframe parser emits one keyframe for each block of the file
\* (the lines between separators, and the lines after the last separator)
\* that has a prompt line, in file order, and none for a block without a
\* prompt; the prompt, negative prompt, frame number and seed of a keyframe
\* are those set in its own block, and absent when its block sets none.
C37_OneKeyframePerPromptBlock ==
    (agent = "parser" /\ pc = "done" /\ StatusIs(stdout, "success")) =>
        /\ Len(stdout.keyframes) = Cardinality(PromptBlocks)
        /\ \A k \in 1..Len(stdout.keyframes) :
              LET keyframe == stdout.keyframes[k]
                  b == NthPromptBlock(k)
              IN  /\ Some(keyframe.prompt) = SaidIn(b, "prompt")
                  /\ keyframe.negative_prompt = SaidIn(b, "negative_prompt")
                  /\ Written10(keyframe.frame_number) = SaidIn(b, "frame_number")
                  /\ Written10(keyframe.seed) = SaidIn(b, "seed")

\* C37 witness: a file whose first block sets a frame number and no prompt
\* and whose trailing block has a prompt: one keyframe, the trailing
\* block's, with no frame number.
C37_Witness ==
    /\ agent = "parser" /\ pc = "done" /\ StatusIs(stdout, "success")
    /\ lines = <<Line("pair", "frame", "1"), Line("separator", "", ""),
                 Line("pair", "prompt", "sunrise")>>
    /\ Len(stdout.keyframes) = 1
    /\ stdout.keyframes[1].prompt = "sunrise"
    /\ stdout.keyframes[1].frame_number = None

====
